---- MODULE Spec2Model ----
(***************************************************************************)
(* Chess-Analysis: the position-search engine of engine-worker.js (the     *)
(* OptimizedChessEngine class and the worker's message handler) and the    *)
(* analysis code of script.js (the synchronous minimax/findBestMove and    *)
(* the orchestrator around the worker; of the first version of script.js,  *)
(* the synchronous analyzePosition and displayAnalysis).                   *)
(*                                                                         *)
(* The rules engine (chess.js) is an external collaborator.  It is         *)
(* modelled as a finite game graph: positions are numbers, a position's    *)
(* FEN is its number, board.move pushes a position on the board's history  *)
(* and board.undo pops it.                                                 *)
(***************************************************************************)
EXTENDS Integers, Sequences, FiniteSets, TLC

VARIABLES
    raw,                \* the static sum evaluatePosition computes for each position (white-relative)
    transpositionTable, \* OptimizedChessEngine.transpositionTable: fen -> {score, depth}
    ttRel,              \* for each stored score, the colour it is relative to (observation)
    ttCut,              \* the keys whose stored score comes from a loop the time check cut short (observation)
    killerMoves,        \* OptimizedChessEngine.killerMoves: set of "from-to" keys
    nodesEvaluated,     \* OptimizedChessEngine.nodesEvaluated
    bestMove,           \* OptimizedChessEngine.bestMove
    bestScore,          \* OptimizedChessEngine.bestScore
    currentDepth,       \* OptimizedChessEngine.currentDepth
    searchBoard,        \* the board object the last search was given, as the search left it
    lastResult,         \* what the last findBestMove call returned
    probe,              \* observations of the last search (entry board, root calls, lookups,
                        \* moves applied late, an exception, a search on the page's own board)
    analyses,           \* number of searches run so far
    currentUsername,    \* script.js globals
    gamesCache,         \* window.gamesCache
    currentGame,        \* index of the loaded game in gamesCache (0: null)
    chess,              \* the board of the analyzer (<<>>: null)
    moveHistory,
    currentMoveIndex,
    previousEval,
    gameStates,
    userColor,
    isAnalyzing,
    analysisCache,      \* fen -> analysis
    toWorker,           \* messages posted to the worker, not yet handled
    toMain,             \* messages posted by the worker, not yet handled
    cacheGame,          \* for each analysisCache key, the game loaded when it was written (observation)
    cacheOf,            \* for each analysisCache key, the position the stored analysis was computed for (observation)
    panel,              \* what displayAnalysis last wrote into the analysis panel
    highlightedSquares, \* the squares renderBoard marks: the best move of the last analysis
    shown,              \* the user last searched for, and the colour that user played in the loaded game (observation)
    evalOf,             \* the game and move index previousEval was computed for (observation)
    ttGame,             \* for each transpositionTable key, the game whose analysis wrote it (observation)
    moveList,           \* the array orderMoves was last given, as the call left it
    givenMoves,         \* that array as it was before the call (observation)
    evaluated           \* the board evaluatePosition last scored, its score and the score of its mirror image

engineVars == <<transpositionTable, ttRel, ttCut, killerMoves, nodesEvaluated, bestMove, bestScore,
                currentDepth, searchBoard, lastResult, probe, analyses>>

orderVars == <<moveList, givenMoves>>

sessionVars == <<currentUsername, gamesCache, currentGame, chess, moveHistory, currentMoveIndex,
                 previousEval, gameStates, userColor, isAnalyzing, analysisCache, toWorker,
                 toMain, cacheGame, cacheOf, panel, evalOf, highlightedSquares, shown>>

----------------------------------------------------------------------------
(* Bounds of the model *)

\* Searches run in one behaviour.
MaxAnalyses == 2
\* The time budget can run out at any of the first MaxExpire clock reads (or never).
MaxExpire == 16
\* The evaluation can throw at any of the first MaxFail nodes of a search.
MaxFail == 3

----------------------------------------------------------------------------
(* Program constants *)

\* ENGINE_CONFIG.maxDepth
maxDepth == 5
\* JavaScript's Infinity, above every score
Infinity == 1000000

NoEntry == [score |-> 0, depth |-> -1]
Null == [to |-> 0, captured |-> FALSE, promotion |-> FALSE, key |-> 0]
NoEvaluated == [board |-> <<>>, score |-> 0, mirrored |-> 0]

----------------------------------------------------------------------------
(* The rules engine: a game graph *)

Pos == 1..15

Mv(from, to, cap, promo) ==
    [to |-> to, captured |-> cap, promotion |-> promo, key |-> from * 100 + to]

\* board.moves(): the legal moves of a position, in generation order.
\* Position 5 is reached from 2 and from 3 (a transposition); position 10 is
\* a checkmate of the side to move; 15 is a stalemate; 7, 8, 9, 11 lead into
\* one common line 12 -> 13 -> 14 -> 15.
LegalMoves(p) ==
    CASE p = 1  -> <<Mv(1, 2, FALSE, FALSE), Mv(1, 3, FALSE, FALSE)>>
      [] p = 2  -> <<Mv(2, 4, FALSE, FALSE), Mv(2, 5, FALSE, FALSE)>>
      [] p = 3  -> <<Mv(3, 5, FALSE, FALSE), Mv(3, 6, FALSE, FALSE)>>
      [] p = 4  -> <<Mv(4, 7, FALSE, FALSE)>>
      [] p = 5  -> <<Mv(5, 8, FALSE, FALSE), Mv(5, 9, TRUE, FALSE)>>
      [] p = 6  -> <<Mv(6, 10, FALSE, FALSE), Mv(6, 11, FALSE, TRUE)>>
      [] p = 7  -> <<Mv(7, 12, FALSE, FALSE)>>
      [] p = 8  -> <<Mv(8, 12, FALSE, FALSE)>>
      [] p = 9  -> <<Mv(9, 12, FALSE, FALSE)>>
      [] p = 11 -> <<Mv(11, 12, FALSE, FALSE)>>
      [] p = 12 -> <<Mv(12, 13, FALSE, FALSE)>>
      [] p = 13 -> <<Mv(13, 14, FALSE, FALSE)>>
      [] p = 14 -> <<Mv(14, 15, FALSE, FALSE)>>
      [] OTHER  -> <<>>

\* The ply of a position from position 1: White is to move at even plies.
Ply(p) ==
    CASE p = 1 -> 0
      [] p \in {2, 3} -> 1
      [] p \in {4, 5, 6} -> 2
      [] p \in {7, 8, 9, 10, 11} -> 3
      [] OTHER -> p - 8

\* board.turn()
Turn(p) == IF Ply(p) % 2 = 0 THEN "w" ELSE "b"

\* board.in_checkmate(), board.in_stalemate()
InCheckmate(p) == p = 10
InStalemate(p) == p = 15

\* board.isGameOver() / game.game_over()
IsGameOver_never(p) == FALSE
IsGameOver(p) == InCheckmate(p) \/ InStalemate(p)

\* A board object: the history of positions, the last one current.
NewBoard(p) == <<p>>
Current(board) == board[Len(board)]
\* board.fen(): the current position only, not the history behind it
Fen(board) == Current(board)
\* board.move(move)
BoardMove(board, move) == Append(board, move.to)
\* board.undo()
BoardUndo(board) == IF Len(board) > 1 THEN SubSeq(board, 1, Len(board) - 1) ELSE board

\* The static sum of the evaluation terms of a position (material, tables,
\* mobility, ...) is a number the board determines.  It varies over the model's
\* games on the positions FreePos and is fixed on the others.
FreePos == {7, 8, 9, 11}
Vals == {-1, 1}
\* The first position of the common line, with its own values.
LinePos == 12
LineVals == {0, 1}
FixedRaw(p) ==
    CASE p = 2 -> 1
      [] p = 3 -> -1
      [] p = 5 -> 1
      [] p = 6 -> -1
      [] p = 10 -> 1
      [] OTHER -> 0


----------------------------------------------------------------------------
(* engine-worker.js: OptimizedChessEngine *)

\* A score together with the colour it is relative to ("none": no score yet).
\* The colour is an observation of the model; the program holds the number only.
Sc(v, rel) == [v |-> v, rel |-> rel]

Max(a, b) == IF a >= b THEN a ELSE b
Min(a, b) == IF a <= b THEN a ELSE b

\* Date.now() - this.startTime > ENGINE_CONFIG.maxTime, at the n-th read of the
\* clock since findBestMove started: the elapsed time only grows, so the test is
\* false up to some read and true from then on.
TimeExceeded(st) == st.reads + 1 > st.expireAt
Tick(st) == [st EXCEPT !.reads = @ + 1]

\* evaluatePosition: counts the node and returns the sum of the terms from the
\* perspective of the side to move.  The call that makes the failAt-th node
\* throws after the count (a call of the board or of a term fails).
evaluatePosition(st) ==
    LET p == Fen(st.board)
        score == raw[p]
        counted == [st EXCEPT !.nodes = @ + 1]
    IN  IF counted.nodes = st.failAt
        THEN [score |-> Sc(0, "none"), st |-> [counted EXCEPT !.thrown = TRUE]]
        ELSE [score |-> Sc(IF Turn(p) = "w" THEN score ELSE -score, Turn(p)),
              st |-> counted]

\* The comparator of orderMoves: negative when a goes first.
\* A move that neither captures nor promotes.
IsQuiet(move) == ~move.captured /\ ~move.promotion

Compare_capturesOnly(kill, a, b) ==
    IF a.captured /\ ~b.captured THEN -1
    ELSE IF ~a.captured /\ b.captured THEN 1
    ELSE IF a.key \in kill /\ ~(b.key \in kill) THEN -1
    ELSE IF ~(a.key \in kill) /\ b.key \in kill THEN 1
    ELSE 0

Compare(kill, a, b) ==
    IF a.captured /\ ~b.captured THEN -1
    ELSE IF ~a.captured /\ b.captured THEN 1
    ELSE IF a.promotion /\ ~b.promotion THEN -1
    ELSE IF ~a.promotion /\ b.promotion THEN 1
    ELSE IF a.key \in kill /\ ~(b.key \in kill) THEN -1
    ELSE IF ~(a.key \in kill) /\ b.key \in kill THEN 1
    ELSE 0

RECURSIVE InsertSorted(_, _, _)
\* Insert m behind every move that does not compare after it (a stable insertion).
InsertSorted(kill, sorted, m) ==
    IF sorted = <<>> THEN <<m>>
    ELSE IF Compare(kill, m, sorted[Len(sorted)]) < 0
         THEN Append(InsertSorted(kill, SubSeq(sorted, 1, Len(sorted) - 1), m),
                     sorted[Len(sorted)])
         ELSE Append(sorted, m)

RECURSIVE SortMoves(_, _, _)
SortMoves(kill, moves, n) ==
    IF n = 0 THEN <<>>
    ELSE InsertSorted(kill, SortMoves(kill, moves, n - 1), moves[n])

\* orderMoves: Array.prototype.sort with the comparator, which is stable.
orderMoves(kill, moves) == SortMoves(kill, moves, Len(moves))

\* The transposition-table lookup of minimax: the entry under the key, used
\* only when it was stored at the requested depth or deeper.
Lookup_anyDepth(tt, fen, depth) ==
    IF fen \in DOMAIN tt
    THEN [hit |-> TRUE, score |-> tt[fen].score]
    ELSE [hit |-> FALSE, score |-> 0]
Lookup(tt, fen, depth) ==
    IF fen \in DOMAIN tt /\ tt[fen].depth >= depth
    THEN [hit |-> TRUE, score |-> tt[fen].score]
    ELSE [hit |-> FALSE, score |-> 0]

\* this.transpositionTable.set(fen, { score, depth })
Store(tt, fen, score, depth) ==
    [k \in DOMAIN tt \cup {fen} |->
        IF k = fen THEN [score |-> score, depth |-> depth] ELSE tt[k]]

StoreRel(rels, fen, rel) ==
    [k \in DOMAIN rels \cup {fen} |-> IF k = fen THEN rel ELSE rels[k]]

\* Two scores of different colours meet in one Math.max / Math.min / comparison.
Mixes(a, b) == a.rel # "none" /\ b.rel # "none" /\ a.rel # b.rel

\* board.move(move) in the move loops of minimax and of findBestMove; the model
\* counts the moves applied after a read of the clock found the budget exceeded.
ApplyMove(st, move) ==
    [st EXCEPT !.board = BoardMove(@, move),
               !.lateMoves = IF st.reads > st.expireAt THEN @ + 1 ELSE @]

\* board.undo() after the recursive call, in minimax and in findBestMove
UndoMove_skipped(st) == st
UndoMove(st) == [st EXCEPT !.board = BoardUndo(@)]

RECURSIVE minimax(_, _, _, _, _)
RECURSIVE minimaxLoop(_, _, _, _, _, _, _, _)

\* One turn of the move loop of minimax, from the value r the recursive call
\* returned for the i-th ordered move: best score, window, undo, cutoff.
minimaxStep(orderedMoves, i, depth, alpha, beta, maximizingPlayer, best, r) ==
    IF r.st.thrown THEN r  \* the exception leaves the loop before board.undo()
    ELSE
    LET score == r.score
        newBest == IF maximizingPlayer
                   THEN (IF score.v > best.v THEN score ELSE best)
                   ELSE (IF score.v < best.v THEN score ELSE best)
        newAlpha == IF maximizingPlayer THEN Max(alpha, score.v) ELSE alpha
        newBeta == IF maximizingPlayer THEN beta ELSE Min(beta, score.v)
        undone == [UndoMove(r.st) EXCEPT !.mixed = @ \/ Mixes(best, score)]
    IN  IF newBeta <= newAlpha
        THEN [score |-> newBest,
              st |-> [undone EXCEPT !.cutoffs = @ + 1,
                                    !.quietCutoffs = IF IsQuiet(orderedMoves[i])
                                                     THEN @ \cup {orderedMoves[i].key} ELSE @]]
        ELSE minimaxLoop(undone, orderedMoves, i + 1, depth, newAlpha, newBeta,
                         maximizingPlayer, newBest)

\* The move loop of minimax from the i-th ordered move on.
minimaxLoop(st, orderedMoves, i, depth, alpha, beta, maximizingPlayer, best) ==
    IF i > Len(orderedMoves) THEN [score |-> best, st |-> st]
    ELSE minimaxStep(orderedMoves, i, depth, alpha, beta, maximizingPlayer, best,
                     minimax(ApplyMove(st, orderedMoves[i]),
                             depth - 1, alpha, beta, ~maximizingPlayer))

\* The end of minimax: the score of the loop is stored under the key and returned.
minimaxStore(fen, depth, r) ==
    IF r.st.thrown THEN r
    ELSE
    [score |-> r.score,
     st |-> [r.st EXCEPT !.tt = Store(@, fen, r.score.v, depth),
                         !.ttRel = StoreRel(@, fen, r.score.rel),
                         !.ttCut = IF r.st.cutShort THEN @ \cup {fen} ELSE @ \ {fen}]]

\* minimax after the time check and the terminal conditions: lookup, loop, store.
minimaxSearch(st, fen, depth, alpha, beta, maximizingPlayer) ==
    LET entry == Lookup(st.tt, fen, depth)
        looked == [st EXCEPT !.lookups = @ \cup
                      {[fen |-> fen, depth |-> depth,
                        stored |-> IF fen \in DOMAIN st.tt THEN st.tt[fen] ELSE NoEntry,
                        hit |-> entry.hit, score |-> entry.score]}]
    IN  IF entry.hit
        THEN [score |-> Sc(entry.score, st.ttRel[fen]),
              st |-> [looked EXCEPT !.cutHits = IF fen \in st.ttCut
                                                THEN @ \cup {[fen |-> fen, depth |-> depth,
                                                               stored |-> st.tt[fen]]}
                                                ELSE @]]
        ELSE minimaxStore(fen, depth,
                 minimaxLoop(looked, orderMoves(st.kill, LegalMoves(fen)), 1, depth,
                             alpha, beta, maximizingPlayer,
                             Sc(IF maximizingPlayer THEN -Infinity ELSE Infinity, "none")))

\* The time check returns the static evaluation of a position that minimax
\* would otherwise look up or search (depth left and the game not over).  The
\* check is false at the entry of every node that reaches its move loop and
\* stays true once it is true, so the flag set at the end of a loop says that a
\* call below that node was cut short.
WouldSearch(st, depth) == depth > 0 /\ ~IsGameOver(Fen(st.board))

minimax(st0, depth, alpha, beta, maximizingPlayer) ==
    IF TimeExceeded(st0)
    THEN evaluatePosition(Tick([st0 EXCEPT !.cutShort = @ \/ WouldSearch(st0, depth)]))
    ELSE IF depth = 0 \/ IsGameOver(Fen(st0.board)) THEN evaluatePosition(Tick(st0))
    ELSE minimaxSearch(Tick(st0), Fen(st0.board), depth, alpha, beta, maximizingPlayer)


\* What findBestMove returns; null when the position has no legal move.
Result(move, score, nodes, depth) ==
    [null |-> FALSE, move |-> move, score |-> score, nodes |-> nodes, depth |-> depth]
NullResult == [null |-> TRUE, move |-> Null, score |-> 0, nodes |-> 0, depth |-> 0]

RECURSIVE rootLoop(_, _, _, _, _, _)

\* One turn of the loop of findBestMove over the root moves, from the value r
\* minimax returned for the i-th move: best move, undo, time check.
rootStep(expireAt, moves, i, depth, best, bestSc, r) ==
    IF r.st.thrown  \* the exception leaves the loop before board.undo()
    THEN [st |-> r.st, move |-> best, score |-> bestSc, broke |-> TRUE]
    ELSE
    LET score == r.score
        better == score.v > bestSc.v
        undone == [UndoMove(r.st) EXCEPT
                      !.mixed = @ \/ Mixes(bestSc, score),
                      !.calls = Append(@, [depth |-> depth, index |-> i,
                                           move |-> moves[i], score |-> score.v,
                                           truncated |-> r.st.reads > expireAt])]
        newBest == IF better THEN moves[i] ELSE best
        newSc == IF better THEN score ELSE bestSc
    IN  IF TimeExceeded(undone)
        THEN [st |-> Tick(undone), move |-> newBest, score |-> newSc, broke |-> TRUE]
        ELSE rootLoop(Tick(undone), moves, i + 1, depth, newBest, newSc)

\* The loop of findBestMove over the root moves, from the i-th move on, in one
\* iteration of the deepening.
rootLoop(st, moves, i, depth, best, bestSc) ==
    IF i > Len(moves) THEN [st |-> st, move |-> best, score |-> bestSc, broke |-> FALSE]
    ELSE rootStep(st.expireAt, moves, i, depth, best, bestSc,
                  minimax(ApplyMove(st, moves[i]),
                          depth - 1, -Infinity, Infinity, FALSE))

RECURSIVE deepen(_, _, _, _, _)

\* The end of one iteration of the deepening, from what its root loop left:
\* the time check, and the next depth.
deepenStep(moves, depth, r) ==
    IF r.st.thrown
    THEN [st |-> r.st, move |-> r.move, score |-> r.score, depth |-> depth]
    ELSE
    LET after == [r.st EXCEPT !.iters = Append(@, [depth |-> depth, broke |-> r.broke])]
    IN  IF TimeExceeded(after) \/ depth = maxDepth
        THEN [st |-> Tick(after), move |-> r.move, score |-> r.score, depth |-> depth]
        ELSE deepen(Tick(after), moves, depth + 1, r.move, r.score)

\* The iterative deepening of findBestMove from the given depth on.
deepen(st, moves, depth, best, bestSc) ==
    deepenStep(moves, depth, rootLoop(st, moves, 1, depth, best, bestSc))

\* The state a search runs on: the engine's tables, the clock, the board, and
\* what the model observes of the search.
SearchState(board, tt, rels, kill, expireAt, failAt) ==
    [tt |-> tt, ttRel |-> rels, ttCut |-> ttCut, cutShort |-> FALSE, cutHits |-> {}, kill |-> kill, reads |-> 0, expireAt |-> expireAt,
     nodes |-> 0, failAt |-> failAt, thrown |-> FALSE, board |-> board,
     mixed |-> FALSE, lookups |-> {}, cutoffs |-> 0, quietCutoffs |-> {}, calls |-> <<>>,
     iters |-> <<>>,
     lateMoves |-> 0]

\* The result of findBestMove from what the deepening left; when the search
\* threw there is no result, and this.bestMove and this.bestScore stay as reset.
findBestMoveResult(d) ==
    IF d.st.thrown
    THEN [result |-> NullResult, st |-> d.st, move |-> Null, score |-> 0, depth |-> d.depth]
    ELSE
    [result |-> Result(d.move, d.score.v, d.st.nodes, d.depth),
     st |-> d.st, move |-> d.move, score |-> d.score.v, depth |-> d.depth]

\* findBestMove(board) without the test of moves.length: bestMove is moves[0]
\* (undefined), bestScore stays -Infinity and the deepening runs to maxDepth.
findBestMove_noNullCheck(board, tt, rels, kill, depthBefore, expireAt, failAt) ==
    IF Len(LegalMoves(Fen(board))) = 0
    THEN [result |-> Result(Null, -Infinity, 0, maxDepth),
          st |-> SearchState(board, tt, rels, kill, expireAt, failAt),
          move |-> Null, score |-> -Infinity, depth |-> maxDepth]
    ELSE findBestMoveResult(deepen(SearchState(board, tt, rels, kill, expireAt, failAt),
                                   LegalMoves(Fen(board)), 1, LegalMoves(Fen(board))[1],
                                   Sc(-Infinity, "none")))

\* findBestMove(board): the result and the state the search leaves behind.
findBestMove(board, tt, rels, kill, depthBefore, expireAt, failAt) ==
    IF Len(LegalMoves(Fen(board))) = 0
    THEN [result |-> NullResult, st |-> SearchState(board, tt, rels, kill, expireAt, failAt),
          move |-> Null, score |-> 0, depth |-> depthBefore]
    ELSE findBestMoveResult(deepen(SearchState(board, tt, rels, kill, expireAt, failAt),
                                   LegalMoves(Fen(board)), 1, LegalMoves(Fen(board))[1],
                                   Sc(-Infinity, "none")))


----------------------------------------------------------------------------
(* script.js: evaluatePosition, minimax, findBestMove *)

\* The score of a checkmate, and the search depth of the script's analysis.
MateScore == 100
ScriptDepth == 3

\* evaluatePosition(game): White-relative; a checkmate counts against the side to move.
script_evaluatePosition(game) ==
    LET p == Fen(game)
    IN  IF InCheckmate(p) THEN (IF Turn(p) = "w" THEN -MateScore ELSE MateScore)
        ELSE IF InStalemate(p) THEN 0
        ELSE raw[p]

RECURSIVE script_minimax(_, _, _, _, _)
RECURSIVE script_minimaxLoop(_, _, _, _, _, _, _, _)

\* One turn of the move loop of minimax, from what the recursive call returned.
script_minimaxStep(moves, i, depth, alpha, beta, isMaximizing, best, r) ==
    LET undone == BoardUndo(r.game)
        evalScore == r.score
        newBest == IF isMaximizing THEN Max(best, evalScore) ELSE Min(best, evalScore)
        newAlpha == IF isMaximizing THEN Max(alpha, evalScore) ELSE alpha
        newBeta == IF isMaximizing THEN beta ELSE Min(beta, evalScore)
    IN  IF newBeta <= newAlpha
        THEN [score |-> newBest, game |-> undone]
        ELSE script_minimaxLoop(undone, moves, i + 1, depth, newAlpha, newBeta,
                                isMaximizing, newBest)

\* The move loop of either branch of minimax, from the i-th move on.
script_minimaxLoop(game, moves, i, depth, alpha, beta, isMaximizing, best) ==
    IF i > Len(moves) THEN [score |-> best, game |-> game]
    ELSE script_minimaxStep(moves, i, depth, alpha, beta, isMaximizing, best,
                            script_minimax(BoardMove(game, moves[i]), depth - 1, alpha,
                                           beta, ~isMaximizing))

script_minimax(game, depth, alpha, beta, isMaximizing) ==
    IF depth = 0 \/ IsGameOver(Fen(game))
    THEN [score |-> script_evaluatePosition(game), game |-> game]
    ELSE script_minimaxLoop(game, LegalMoves(Fen(game)), 1, depth, alpha, beta,
                            isMaximizing,
                            IF isMaximizing THEN -Infinity ELSE Infinity)

\* The value findBestMove gives a root move from the value minimax returned.
script_rootValue(isWhite, score) == IF isWhite THEN -score ELSE score

RECURSIVE script_rootLoop(_, _, _, _, _, _, _)

\* One turn of the loop of findBestMove, from what minimax returned for the i-th move.
script_rootStep(isWhite, moves, i, depth, best, bestValue, calls, r) ==
    LET value == script_rootValue(isWhite, r.score)
        better == value > bestValue
        call == [depth |-> depth, index |-> i, move |-> moves[i], score |-> r.score,
                 truncated |-> FALSE]
    IN  script_rootLoop(BoardUndo(r.game), moves, i + 1, depth,
                        IF better THEN moves[i] ELSE best,
                        IF better THEN value ELSE bestValue,
                        Append(calls, call))

script_rootLoop(game, moves, i, depth, best, bestValue, calls) ==
    IF i > Len(moves)
    THEN [game |-> game, move |-> best, evaluation |-> bestValue, calls |-> calls]
    ELSE script_rootStep(Turn(Fen(game)) = "w", moves, i, depth, best, bestValue, calls,
                         script_minimax(BoardMove(game, moves[i]), depth - 1, -Infinity,
                                        Infinity, ~(Turn(Fen(game)) = "w")))

\* The result of findBestMove from what the loop left.
script_findBestMoveResult(depth, r) ==
    [result |-> Result(r.move, r.evaluation, 0, depth), game |-> r.game, calls |-> r.calls]

\* findBestMove(game, depth): null without a legal move.
script_findBestMove(game, depth) ==
    IF Len(LegalMoves(Fen(game))) = 0
    THEN [result |-> NullResult, game |-> game, calls |-> <<>>]
    ELSE script_findBestMoveResult(depth,
             script_rootLoop(game, LegalMoves(Fen(game)), 1, depth,
                             LegalMoves(Fen(game))[1], -Infinity, <<>>))

----------------------------------------------------------------------------
(* The engine on its own: searches of positions of the game graph *)

\* The positions a search is asked for, and the clock reads at which the budget can run out.
Roots == {1, 2, 6, 10}
Never == Infinity
Expiries == (0..MaxExpire) \cup {Never}
\* The nodes at which the evaluation can throw.
Fails == 1..MaxFail

NoProbe == [entry |-> <<>>, expireAt |-> 0, reads |-> 0, mixed |-> FALSE,
            lookups |-> {}, cutoffs |-> 0, quietCutoffs |-> {}, cutHits |-> {}, calls |-> <<>>,
            iters |-> <<>>,
            lateMoves |-> 0, thrown |-> FALSE, live |-> FALSE, engine |-> "none"]

\* new OptimizedChessEngine()
EngineInit ==
    /\ transpositionTable = <<>>
    /\ ttRel = <<>>
    /\ ttCut = {}
    /\ killerMoves = {}
    /\ nodesEvaluated = 0
    /\ bestMove = Null
    /\ bestScore = 0
    /\ currentDepth = 0
    /\ searchBoard = <<>>
    /\ lastResult = NullResult
    /\ probe = NoProbe
    /\ analyses = 0
    /\ ttGame = <<>>
    /\ moveList = <<>>
    /\ givenMoves = <<>>
    /\ evaluated = NoEvaluated

\* The engine and the observations after a search that returned r.
EngineAfter(board, e, r) ==
    /\ transpositionTable' = r.st.tt
    /\ ttRel' = r.st.ttRel
    /\ ttCut' = r.st.ttCut
    /\ killerMoves' = r.st.kill
    /\ nodesEvaluated' = r.st.nodes
    /\ bestMove' = r.move
    /\ bestScore' = r.score
    /\ currentDepth' = r.depth
    /\ searchBoard' = r.st.board
    /\ lastResult' = r.result
    /\ probe' = [entry |-> board, expireAt |-> e, reads |-> r.st.reads,
                 mixed |-> r.st.mixed, lookups |-> r.st.lookups,
                 cutoffs |-> r.st.cutoffs, quietCutoffs |-> r.st.quietCutoffs,
                 cutHits |-> r.st.cutHits,
                 calls |-> r.st.calls, iters |-> r.st.iters,
                 lateMoves |-> r.st.lateMoves, thrown |-> r.st.thrown, live |-> FALSE,
                 engine |-> "worker"]

\* engine.findBestMove(board), the budget running out at clock read e and the
\* evaluation of node f throwing.
EngineSearch(board, e, f) ==
    EngineAfter(board, e,
                findBestMove(board, transpositionTable, ttRel, killerMoves, currentDepth, e, f))

\* The keys a search wrote (new, or with another entry than before) take the tag g.
Retag(tags, before, after, g) ==
    [k \in DOMAIN after |->
        IF k \in DOMAIN before /\ before[k] = after[k] /\ k \in DOMAIN tags
        THEN tags[k] ELSE g]

\* self.onmessage, case 'FIND_BEST_MOVE': a search of the board at position p.
FindBestMove(p, e, f) ==
    /\ analyses < MaxAnalyses
    /\ analyses' = analyses + 1
    /\ EngineSearch(NewBoard(p), e, f)
    /\ ttGame' = Retag(ttGame, transpositionTable, transpositionTable', 0)
    /\ UNCHANGED <<raw, orderVars, evaluated, sessionVars>>

\* What the model keeps of a search of the script's findBestMove that returned r.
ScriptAfter(p, r) ==
    /\ searchBoard' = r.game
    /\ lastResult' = r.result
    /\ probe' = [NoProbe EXCEPT !.entry = NewBoard(p), !.calls = r.calls,
                                !.engine = "script"]

\* findBestMove(chess, 3) of script.js on a board at position p.
ScriptFindBestMove(p) ==
    /\ analyses < MaxAnalyses
    /\ analyses' = analyses + 1
    /\ ScriptAfter(p, script_findBestMove(NewBoard(p), ScriptDepth))
    /\ UNCHANGED <<raw, orderVars, evaluated, transpositionTable, ttRel, ttCut, killerMoves, nodesEvaluated,
                   bestMove, bestScore, currentDepth, ttGame, sessionVars>>

----------------------------------------------------------------------------
(* engine-worker.js: analyzePosition and the worker's message handler *)

\* classifyMoveQuality(score): the ladder over the absolute score, top to bottom.
classifyMoveQuality(score) ==
    LET absScore == IF score < 0 THEN -score ELSE score
    IN  IF absScore > 300 THEN "Brilliant"
        ELSE IF absScore > 150 THEN "Excellent"
        ELSE IF absScore > 75 THEN "Good"
        ELSE IF absScore > 25 THEN "Decent"
        ELSE IF absScore > 10 THEN "Equal"
        ELSE IF absScore > 50 THEN "Inaccurate"
        ELSE IF absScore > 150 THEN "Mistake"
        ELSE "Blunder"

\* analyzePosition(board), from what findBestMove returned.
analyzePosition(result) ==
    IF result.null
    THEN [bestMove |-> Null, evaluation |-> 0, quality |-> "No moves available",
          nodes |-> 0, depth |-> 0]
    ELSE [bestMove |-> result.move, evaluation |-> result.score,
          quality |-> classifyMoveQuality(result.score),
          nodes |-> result.nodes, depth |-> result.depth]

NoData == [bestMove |-> Null, evaluation |-> 0, quality |-> "", nodes |-> 0, depth |-> 0]
\* A message; "of" is the position an analysis in it was computed for (observation).
Message(type, data) == [type |-> type, data |-> data, of |-> 0]

\* The clock reads at which the budget of an analysis of the page can run out.
SessionExpiries == {MaxExpire, Never}

\* self.onmessage, case 'ANALYZE_POSITION': the analysis of the posted board and
\* the reply; when the analysis throws (ok = FALSE: findBestMove has reset its
\* counters and the call of the board fails) the reply is ANALYSIS_ERROR.
WorkerOnMessage(e, ok) ==
    /\ toWorker # <<>>
    /\ toWorker' = Tail(toWorker)
    /\ IF ok
       THEN /\ EngineSearch(Head(toWorker).board, e, Never)
            /\ ttGame' = Retag(ttGame, transpositionTable, transpositionTable',
                               Head(toWorker).game)
            /\ toMain' = Append(toMain,
                   [Message("ANALYSIS_COMPLETE", analyzePosition(lastResult'))
                        EXCEPT !.of = Fen(Head(toWorker).board)])
       ELSE /\ nodesEvaluated' = 0
            /\ bestMove' = Null
            /\ bestScore' = 0
            /\ searchBoard' = Head(toWorker).board
            /\ lastResult' = NullResult
            /\ probe' = NoProbe
            /\ toMain' = Append(toMain, Message("ANALYSIS_ERROR", NoData))
            /\ UNCHANGED <<transpositionTable, ttRel, ttCut, killerMoves, currentDepth, ttGame>>
    /\ UNCHANGED <<raw, orderVars, evaluated, highlightedSquares, shown, analyses, currentUsername, gamesCache, currentGame, chess,
                   moveHistory, currentMoveIndex, previousEval, gameStates, userColor,
                   isAnalyzing, analysisCache, cacheGame, cacheOf, panel, evalOf>>

----------------------------------------------------------------------------
(* script.js: the page *)

\* The position of new Chess() and of chess.reset().
StartPos == 1
NoChess == <<>>
\* previousEval = null; a number v is held as <<v>>.
NoEval == <<>>
\* The analysis panel before any displayAnalysis, and the tag of a null previousEval.
NoEvalOf == [game |-> 0, index |-> -1]
NoPanel == [evalText |-> "", moveQuality |-> "", evaluation |-> 0, previous |-> NoEval,
            of |-> NoEvalOf, previousOf |-> NoEvalOf]

\* The games a search of a player's archive lists: the players and the
\* positions the moves of the PGN lead to.
Games ==
    << [white |-> "ann", black |-> "bob", pgn |-> <<2>>],
       [white |-> "bob", black |-> "ann", pgn |-> <<3, 6, 10>>] >>

\* The names typed into the search box, and String.prototype.toLowerCase on them.
Usernames == {"Ann", "eve"}
toLowerCase(u) == IF u = "Ann" THEN "ann" ELSE u

\* The legal move from one position to another.
MoveTo(from, to) ==
    LET moves == LegalMoves(from)
    IN  moves[CHOOSE i \in 1..Len(moves) : moves[i].to = to]

\* chess.history({verbose: true}) after chess.load_pgn(pgn)
History(pgn) ==
    [i \in 1..Len(pgn) |-> MoveTo(IF i = 1 THEN StartPos ELSE pgn[i - 1], pgn[i])]

\* The colour loadGame finds for the user.
UserColorOf(username, game) ==
    IF username = game.white \/ toLowerCase(username) = toLowerCase(game.white) THEN "w"
    ELSE IF username = game.black \/ toLowerCase(username) = toLowerCase(game.black) THEN "b"
    ELSE "w"

\* Map.prototype.set
MapSet(map, key, value) ==
    [k \in DOMAIN map \cup {key} |-> IF k = key THEN value ELSE map[k]]

\* The colour a user played in a game ("none": not a player of the game).
PlayedBy(username, game) ==
    IF toLowerCase(username) = toLowerCase(game.white) THEN "w"
    ELSE IF toLowerCase(username) = toLowerCase(game.black) THEN "b"
    ELSE "none"

\* No user was searched for yet.
NoUser == ""

\* The globals of script.js when the page has loaded.
PageInit ==
    /\ currentUsername = ""
    /\ gamesCache = <<>>
    /\ currentGame = 0
    /\ chess = NoChess
    /\ moveHistory = <<>>
    /\ currentMoveIndex = -1
    /\ previousEval = NoEval
    /\ gameStates = <<>>
    /\ userColor = "w"
    /\ isAnalyzing = FALSE
    /\ analysisCache = <<>>
    /\ toWorker = <<>>
    /\ cacheGame = <<>>
    /\ cacheOf = <<>>
    /\ shown = [user |-> NoUser, played |-> "none"]
    /\ highlightedSquares = <<>>
    /\ panel = NoPanel
    /\ evalOf = NoEvalOf

\* The second version starts the worker, which posts ENGINE_READY.
SessionInit ==
    /\ PageInit
    /\ toMain = <<Message("ENGINE_READY", NoData)>>

\* searchGames(): the name is stored, and the games are listed when the fetch succeeds.
SearchGames(u, ok) ==
    /\ currentUsername' = u
    /\ gamesCache' = IF ok THEN Games ELSE gamesCache
    /\ shown' = [shown EXCEPT !.user = u]
    /\ UNCHANGED <<raw, orderVars, evaluated, highlightedSquares, engineVars, ttGame, currentGame, chess, moveHistory,
                   currentMoveIndex, previousEval, gameStates, userColor, isAnalyzing,
                   analysisCache, toWorker, toMain, cacheGame, cacheOf, panel, evalOf>>

\* loadGame(index), from a card of the list
LoadGame(index) ==
    /\ index <= Len(gamesCache)
    /\ currentGame' = index
    /\ chess' = NewBoard(StartPos)
    /\ moveHistory' = History(gamesCache[index].pgn)
    /\ gameStates' = <<StartPos>> \o gamesCache[index].pgn
    /\ currentMoveIndex' = 0
    /\ previousEval' = NoEval
    /\ evalOf' = NoEvalOf
    /\ highlightedSquares' = <<>>
    /\ userColor' = UserColorOf(currentUsername, gamesCache[index])
    /\ shown' = [shown EXCEPT !.played = PlayedBy(shown.user, gamesCache[index])]
    /\ UNCHANGED <<raw, orderVars, evaluated, engineVars, ttGame, currentUsername, gamesCache, isAnalyzing,
                   analysisCache, toWorker, toMain, cacheGame, cacheOf, panel>>

\* The tail of the four navigation functions: chess.load(gameStates[currentMoveIndex]),
\* which throws on a null chess after the index was assigned.
Navigate_keepsHighlight(index) ==
    /\ currentMoveIndex' = index
    /\ chess' = IF chess = NoChess THEN NoChess ELSE NewBoard(gameStates[index + 1])
    /\ UNCHANGED <<raw, orderVars, evaluated, shown, engineVars, ttGame, currentUsername, gamesCache, currentGame,
                   moveHistory, previousEval, gameStates, userColor, isAnalyzing,
                   analysisCache, toWorker, toMain, cacheGame, cacheOf, panel, evalOf,
                   highlightedSquares>>

Navigate(index) ==
    /\ currentMoveIndex' = index
    /\ chess' = IF chess = NoChess THEN NoChess ELSE NewBoard(gameStates[index + 1])
    /\ highlightedSquares' = IF chess = NoChess THEN highlightedSquares ELSE <<>>
    /\ UNCHANGED <<raw, orderVars, evaluated, shown, engineVars, ttGame, currentUsername, gamesCache, currentGame,
                   moveHistory, previousEval, gameStates, userColor, isAnalyzing,
                   analysisCache, toWorker, toMain, cacheGame, cacheOf, panel, evalOf>>

FirstMove == Navigate(0)
PreviousMove == currentMoveIndex > 0 /\ Navigate(currentMoveIndex - 1)
NextMove == currentMoveIndex < Len(moveHistory) /\ Navigate(currentMoveIndex + 1)
LastMove == Navigate(Len(moveHistory))

\* handleAnalysisComplete(analysis): the analysis is cached under the FEN of the
\* board as it is now; chess.fen() throws on a null chess after the flag was reset.
handleAnalysisComplete(analysis) ==
    /\ isAnalyzing' = FALSE
    /\ IF chess = NoChess
       THEN UNCHANGED <<analysisCache, cacheGame>>
       ELSE /\ analysisCache' = MapSet(analysisCache, Fen(chess), analysis)
            /\ cacheGame' = MapSet(cacheGame, Fen(chess), currentGame)

\* The first line of analyzePosition: the call returns at once without a board
\* or while an analysis is running.
MayAnalyze_ignoringFlag == chess # NoChess
MayAnalyze == chess # NoChess /\ ~isAnalyzing

\* analyzePosition(): a cached analysis is shown at once, otherwise the board is
\* posted to the worker.
AnalyzePosition ==
    /\ MayAnalyze
    /\ IF Fen(chess) \in DOMAIN analysisCache
       THEN /\ handleAnalysisComplete(analysisCache[Fen(chess)])
            /\ UNCHANGED <<toWorker, analyses, cacheOf>>
       ELSE /\ analyses < MaxAnalyses
            /\ analyses' = analyses + 1
            /\ isAnalyzing' = TRUE
            /\ toWorker' = Append(toWorker, [type |-> "ANALYZE_POSITION", board |-> chess,
                                             game |-> currentGame])
            /\ UNCHANGED <<analysisCache, cacheGame, cacheOf>>
    /\ UNCHANGED <<raw, orderVars, evaluated, highlightedSquares, shown, transpositionTable, ttRel, ttCut, killerMoves, nodesEvaluated, bestMove,
                   bestScore, currentDepth, searchBoard, lastResult, probe, ttGame,
                   currentUsername, gamesCache, currentGame, chess, moveHistory,
                   currentMoveIndex, previousEval, gameStates, userColor, toMain, panel,
                   evalOf>>

\* engineWorker.onmessage: ANALYSIS_COMPLETE goes to handleAnalysisComplete; the
\* other types change no variable of the page.
MainOnMessage ==
    /\ toMain # <<>>
    /\ toMain' = Tail(toMain)
    /\ IF Head(toMain).type = "ANALYSIS_COMPLETE"
       THEN /\ handleAnalysisComplete(Head(toMain).data)
            /\ cacheOf' = IF chess = NoChess THEN cacheOf
                          ELSE MapSet(cacheOf, Fen(chess), Head(toMain).of)
       ELSE UNCHANGED <<isAnalyzing, analysisCache, cacheGame, cacheOf>>
    /\ UNCHANGED <<raw, orderVars, evaluated, highlightedSquares, shown, engineVars, ttGame, currentUsername, gamesCache, currentGame, chess,
                   moveHistory, currentMoveIndex, previousEval, gameStates, userColor,
                   toWorker, panel, evalOf>>

\* backToSearch()
BackToSearch ==
    /\ currentGame' = 0
    /\ chess' = NoChess
    /\ previousEval' = NoEval
    /\ evalOf' = NoEvalOf
    /\ highlightedSquares' = <<>>
    /\ currentUsername' = ""
    /\ userColor' = "w"
    /\ shown' = [shown EXCEPT !.played = "none"]
    /\ UNCHANGED <<raw, orderVars, evaluated, engineVars, ttGame, gamesCache, moveHistory, currentMoveIndex,
                   gameStates, isAnalyzing, analysisCache, toWorker, toMain, cacheGame, cacheOf,
                   panel>>

----------------------------------------------------------------------------
(* script.js, first version: the synchronous analysis and displayAnalysis *)

\* The numbers displayAnalysis works on are held in hundredths of a pawn; the
\* evaluator of script.js counts in pawns.
Hundredths(pawns) == 100 * pawns
Abs(x) == IF x < 0 THEN -x ELSE x

\* The threshold from which displayAnalysis prints a mate, in pawns.
MateThreshold == 50

\* The first lines of displayAnalysis: the text of the evaluation.
evalText(evaluation) ==
    IF Abs(evaluation) >= Hundredths(MateThreshold)
    THEN (IF evaluation > 0 THEN "Mate for White" ELSE "Mate for Black")
    ELSE "number"

\* The ladder of displayAnalysis over evalDiff (0.3, 0.8, 1.5 and 3.0 pawns).
moveQualityClass_closedBuckets(evalDiff) ==
    IF evalDiff <= 30 THEN "excellent"
    ELSE IF evalDiff <= 80 THEN "good"
    ELSE IF evalDiff <= 150 THEN "inaccuracy"
    ELSE IF evalDiff <= 300 THEN "mistake"
    ELSE "blunder"
moveQualityClass(evalDiff) ==
    IF evalDiff < 30 THEN "excellent"
    ELSE IF evalDiff < 80 THEN "good"
    ELSE IF evalDiff < 150 THEN "inaccuracy"
    ELSE IF evalDiff < 300 THEN "mistake"
    ELSE "blunder"

\* displayAnalysis(evaluation, bestMove): the text of the evaluation, the
\* quality of the move when there is a previous evaluation and the board is
\* not at the start of the game, and previousEval = evaluation.  The panel
\* keeps, as observations, the numbers compared and what they were computed for.
displayAnalysis(evaluation, move) ==
    /\ panel' = [evalText |-> evalText(evaluation),
                 moveQuality |-> IF currentMoveIndex > 0 /\ previousEval # NoEval
                                 THEN moveQualityClass(Abs(evaluation - previousEval[1]))
                                 ELSE "",
                 evaluation |-> evaluation,
                 previous |-> previousEval,
                 of |-> [game |-> currentGame, index |-> currentMoveIndex],
                 previousOf |-> evalOf]
    /\ previousEval' = <<evaluation>>
    /\ evalOf' = [game |-> currentGame, index |-> currentMoveIndex]

\* The page after findBestMove(chess, 3) returned r to analyzePosition: the
\* search ran on the chess object of the page itself.
SyncAfter(r) ==
    /\ chess' = r.game
    /\ searchBoard' = r.game
    /\ lastResult' = r.result
    /\ probe' = [NoProbe EXCEPT !.entry = chess, !.calls = r.calls, !.engine = "script",
                                !.live = TRUE]
    /\ IF r.result.null
       THEN UNCHANGED <<panel, previousEval, evalOf, highlightedSquares>>
       ELSE /\ highlightedSquares' = <<r.result.move.key \div 100, r.result.move.to>>
            /\ displayAnalysis(Hundredths(r.result.score), r.result.move)

\* analyzePosition() of the first version (the callback of its setTimeout):
\* findBestMove(chess, 3) and displayAnalysis; without a board the call throws
\* and the catch changes no variable.
SyncAnalyzePosition ==
    /\ chess # NoChess
    /\ SyncAfter(script_findBestMove(chess, ScriptDepth))
    /\ UNCHANGED <<raw, orderVars, evaluated, shown, transpositionTable, ttRel, ttCut, killerMoves, nodesEvaluated, bestMove,
                   bestScore, currentDepth, analyses, ttGame, currentUsername, gamesCache,
                   currentGame, moveHistory, currentMoveIndex, gameStates, userColor,
                   isAnalyzing, analysisCache, toWorker, toMain, cacheGame, cacheOf>>

\* A call displayAnalysis(evaluation, bestMove) on a loaded game.
DisplayAnalysis(evaluation) ==
    /\ chess # NoChess
    /\ displayAnalysis(evaluation, LegalMoves(StartPos)[1])
    /\ UNCHANGED <<raw, orderVars, evaluated, highlightedSquares, shown, engineVars, ttGame, currentUsername, gamesCache, currentGame, chess,
                   moveHistory, currentMoveIndex, gameStates, userColor, isAnalyzing,
                   analysisCache, toWorker, toMain, cacheGame, cacheOf>>

----------------------------------------------------------------------------
(* engine-worker.js: the terms of evaluatePosition on a board of pieces *)

PIECE_VALUES ==
    [p |-> 100, n |-> 320, b |-> 330, r |-> 500, q |-> 900, k |-> 20000,
     P |-> -100, N |-> -320, B |-> -330, R |-> -500, Q |-> -900, K |-> -20000]

PIECE_SQUARE_TABLES ==
    [p |-> <<0, 0, 0, 0, 0, 0, 0, 0,
            50, 50, 50, 50, 50, 50, 50, 50,
            10, 10, 20, 30, 30, 20, 10, 10,
            5, 5, 10, 25, 25, 10, 5, 5,
            0, 0, 0, 20, 20, 0, 0, 0,
            5, -5, -10, 0, 0, -10, -5, 5,
            5, 10, 10, -20, -20, 10, 10, 5,
            0, 0, 0, 0, 0, 0, 0, 0>>,
     n |-> <<-50, -40, -30, -30, -30, -30, -40, -50,
            -40, -20, 0, 0, 0, 0, -20, -40,
            -30, 0, 10, 15, 15, 10, 0, -30,
            -30, 5, 15, 20, 20, 15, 5, -30,
            -30, 0, 15, 20, 20, 15, 0, -30,
            -30, 5, 10, 15, 15, 10, 5, -30,
            -40, -20, 0, 5, 5, 0, -20, -40,
            -50, -40, -30, -30, -30, -30, -40, -50>>,
     b |-> <<-20, -10, -10, -10, -10, -10, -10, -20,
            -10, 0, 0, 0, 0, 0, 0, -10,
            -10, 0, 5, 10, 10, 5, 0, -10,
            -10, 5, 5, 10, 10, 5, 5, -10,
            -10, 0, 10, 10, 10, 10, 0, -10,
            -10, 10, 10, 10, 10, 10, 10, -10,
            -10, 5, 0, 0, 0, 0, 5, -10,
            -20, -10, -10, -10, -10, -10, -10, -20>>,
     r |-> <<0, 0, 0, 0, 0, 0, 0, 0,
            5, 10, 10, 10, 10, 10, 10, 5,
            -5, 0, 0, 0, 0, 0, 0, -5,
            -5, 0, 0, 0, 0, 0, 0, -5,
            -5, 0, 0, 0, 0, 0, 0, -5,
            -5, 0, 0, 0, 0, 0, 0, -5,
            -5, 0, 0, 0, 0, 0, 0, -5,
            0, 0, 0, 5, 5, 0, 0, 0>>,
     q |-> <<-20, -10, -10, -5, -5, -10, -10, -20,
            -10, 0, 0, 0, 0, 0, 0, -10,
            -10, 0, 5, 5, 5, 5, 0, -10,
            -5, 0, 5, 5, 5, 5, 0, -5,
            0, 0, 5, 5, 5, 5, 0, -5,
            -10, 5, 5, 5, 5, 5, 0, -10,
            -10, 0, 5, 0, 0, 0, 0, -10,
            -20, -10, -10, -5, -5, -10, -10, -20>>,
     k |-> <<-30, -40, -40, -50, -50, -40, -40, -30,
            -30, -40, -40, -50, -50, -40, -40, -30,
            -30, -40, -40, -50, -50, -40, -40, -30,
            -30, -40, -40, -50, -50, -40, -40, -30,
            -20, -30, -30, -40, -40, -30, -30, -20,
            -10, -20, -20, -20, -20, -20, -20, -10,
            20, 20, 0, 0, 0, 0, 20, 20,
            20, 30, 10, 0, 0, 10, 30, 20>>]

\* A piece of board.board(): row i (0 is the eighth rank) and column j.
Pc(type, color, i, j) == [type |-> type, color |-> color, i |-> i, j |-> j]

\* A board: its pieces, the side to move and, for every legal move of the side
\* to move, the type of the piece that moves (board.moves()).
Brd(pieces, turn, moves) == [pieces |-> pieces, turn |-> turn, moves |-> moves]

RECURSIVE SumOver(_, _)
SumOver(F(_), S) ==
    IF S = {} THEN 0
    ELSE LET x == CHOOSE y \in S : TRUE IN F(x) + SumOver(F, S \ {x})

squareIndex(piece) == piece.i * 8 + piece.j

\* materialScore += PIECE_VALUES[pieceType]: piece.type is the lower-case letter for both colours.
MaterialOf(piece) == PIECE_VALUES[piece.type]
materialScore(board) == SumOver(MaterialOf, board.pieces)

PositionalOf(piece) ==
    IF piece.color = "w"
    THEN PIECE_SQUARE_TABLES[piece.type][squareIndex(piece) + 1]
    ELSE -PIECE_SQUARE_TABLES[piece.type][63 - squareIndex(piece) + 1]
positionalScore(board) == SumOver(PositionalOf, board.pieces)

mobilityScore(board) == Len(board.moves) * 2

\* The pieces on the squares around a king.
Neighbours(board, king) ==
    {q \in board.pieces : /\ q # king
                          /\ q.i - king.i \in -1..1
                          /\ q.j - king.j \in -1..1}

evaluateKingSafety(board) ==
    LET SafetyOf(king) ==
            LET friendlyPieces == Cardinality({q \in Neighbours(board, king) : q.color = king.color})
                enemyPieces == Cardinality({q \in Neighbours(board, king) : q.color # king.color})
                pawnShield == Cardinality({q \in Neighbours(board, king) :
                                              q.color = king.color /\ q.type = "p"})
            IN  (friendlyPieces - enemyPieces) * 15 + pawnShield * 10
    IN  SumOver(SafetyOf, {q \in board.pieces : q.type = "k"})

evaluatePawnStructure(board) ==
    LET count(color, file) ==
            Cardinality({q \in board.pieces : q.type = "p" /\ q.color = color /\ q.j = file})
        FileScore(cf) ==
            IF count(cf[1], cf[2]) > 1
            THEN (IF cf[1] = "w" THEN -20 ELSE 20) * (count(cf[1], cf[2]) - 1)
            ELSE 0
    IN  SumOver(FileScore, {"w", "b"} \X (0..7))

evaluatePieceActivity(board) ==
    LET moveCounts(t) == Cardinality({i \in 1..Len(board.moves) : board.moves[i] = t})
    IN  moveCounts("n") * 5 + moveCounts("b") * 5 + moveCounts("r") * 3 + moveCounts("q") * 2

\* evaluatePosition(board): the sum of the terms, from the perspective of the side to move.
boardScore(board) ==
    LET score == materialScore(board) + positionalScore(board) + mobilityScore(board)
                 + evaluateKingSafety(board) + evaluatePawnStructure(board)
                 + evaluatePieceActivity(board)
    IN  IF board.turn = "w" THEN score ELSE -score

\* The same position with the colours exchanged: every piece changes colour
\* and goes to the mirrored rank, the other side is to move, and the legal
\* moves are the mirror images of the legal moves.
Other(color) == IF color = "w" THEN "b" ELSE "w"
Mirror(board) ==
    Brd({Pc(q.type, Other(q.color), 7 - q.i, q.j) : q \in board.pieces},
        Other(board.turn), board.moves)

\* The boards the evaluator is given in the model: the two kings on one of two
\* squares each, any of four further pieces, either side to move.
WhiteKings == {Pc("k", "w", 7, 4), Pc("k", "w", 7, 6)}
BlackKings == {Pc("k", "b", 0, 4), Pc("k", "b", 0, 6)}
PiecePool ==
    {Pc("p", "w", 6, 4), Pc("p", "w", 5, 4), Pc("n", "w", 5, 5), Pc("q", "b", 3, 7)}
\* The legal moves of the rules engine, by moving piece: kingMoves moves of the
\* king and MovesEach moves of every other piece of the side to move.
KingMoveCounts == {2, 5}
MovesEach == 2
RECURSIVE MovesOfPieces(_)
MovesOfPieces(S) ==
    IF S = {} THEN <<>>
    ELSE LET x == CHOOSE y \in S : TRUE
         IN  [i \in 1..MovesEach |-> x.type] \o MovesOfPieces(S \ {x})
MoveTypes(pieces, turn, kingMoves) ==
    [i \in 1..kingMoves |-> "k"]
        \o MovesOfPieces({q \in pieces : q.color = turn /\ q.type # "k"})
Boards ==
    {Brd({wk, bk} \cup extra, turn, MoveTypes({wk, bk} \cup extra, turn, km)) :
        wk \in WhiteKings, bk \in BlackKings, extra \in SUBSET PiecePool,
        turn \in {"w", "b"}, km \in KingMoveCounts}

\* engine.evaluatePosition(board), and the same call for the mirror image.
EvaluatePosition(board) ==
    /\ evaluated' = [board |-> board, score |-> boardScore(board),
                     mirrored |-> boardScore(Mirror(board))]
    /\ UNCHANGED <<raw, orderVars, engineVars, ttGame, sessionVars>>

----------------------------------------------------------------------------
(* Specifications *)

Init ==
    /\ \E f \in [FreePos -> Vals], v \in LineVals :
           raw = [p \in Pos |-> IF p \in FreePos THEN f[p]
                                ELSE IF p = LinePos THEN v ELSE FixedRaw(p)]
    /\ EngineInit
    /\ SessionInit

\* The engine on its own.
Next ==
    \/ \E p \in Roots, e \in Expiries : FindBestMove(p, e, Never)
    \/ \E p \in Roots, f \in Fails : FindBestMove(p, Never, f)
    \/ \E p \in Roots : ScriptFindBestMove(p)

vars == <<raw, engineVars, ttGame, orderVars, evaluated, sessionVars>>

Spec == Init /\ [][Next]_vars

\* The page: the user's actions, the worker and the messages between them.
NextSession ==
    \/ \E u \in Usernames, ok \in BOOLEAN : SearchGames(u, ok)
    \/ \E index \in 1..Len(Games) : LoadGame(index)
    \/ FirstMove
    \/ PreviousMove
    \/ NextMove
    \/ LastMove
    \/ AnalyzePosition
    \/ \E e \in SessionExpiries, ok \in BOOLEAN : WorkerOnMessage(e, ok)
    \/ MainOnMessage
    \/ BackToSearch

\* The page runs with one evaluation of the positions.
SessionRaw ==
    [p \in Pos |-> IF p \in {7, 9} THEN 1 ELSE IF p \in {8, 11} THEN -1 ELSE FixedRaw(p)]

InitSession ==
    /\ raw = SessionRaw
    /\ EngineInit
    /\ SessionInit

SpecSession == InitSession /\ [][NextSession]_vars

\* The page of the first version: the user's actions and the synchronous analysis.
NextSync ==
    \/ \E u \in Usernames, ok \in BOOLEAN : SearchGames(u, ok)
    \/ \E index \in 1..Len(Games) : LoadGame(index)
    \/ FirstMove
    \/ PreviousMove
    \/ NextMove
    \/ LastMove
    \/ SyncAnalyzePosition
    \/ BackToSearch

\* The first version has no worker.
InitSync ==
    /\ raw = SessionRaw
    /\ EngineInit
    /\ PageInit
    /\ toMain = <<>>

SpecSync == InitSync /\ [][NextSync]_vars

\* displayAnalysis on its own: the evaluations it is called with and the
\* previous evaluations it finds, in hundredths of a pawn, on the second game
\* shown at any of its moves.
LadderEvals == {-100, 0, 25, 29, 30, 31, 50, 79, 80, 81, 100, 149, 150, 151, 200, 299,
                300, 301, 400}

InitLadder ==
    /\ raw = SessionRaw
    /\ EngineInit
    /\ currentUsername = "Ann"
    /\ gamesCache = Games
    /\ currentGame = 2
    /\ moveHistory = History(Games[2].pgn)
    /\ gameStates = <<StartPos>> \o Games[2].pgn
    /\ currentMoveIndex \in 0..Len(Games[2].pgn)
    /\ chess = NewBoard(gameStates[currentMoveIndex + 1])
    /\ previousEval \in {NoEval} \cup {<<v>> : v \in LadderEvals}
    /\ evalOf = IF previousEval = NoEval THEN NoEvalOf ELSE [game |-> 2, index |-> 0]
    /\ userColor = UserColorOf(currentUsername, Games[2])
    /\ isAnalyzing = FALSE
    /\ analysisCache = <<>>
    /\ toWorker = <<>>
    /\ toMain = <<>>
    /\ cacheGame = <<>>
    /\ cacheOf = <<>>
    /\ shown = [user |-> "Ann", played |-> PlayedBy("Ann", Games[2])]
    /\ highlightedSquares = <<>>
    /\ panel = NoPanel

NextLadder == \E evaluation \in LadderEvals : DisplayAnalysis(evaluation)

SpecLadder == InitLadder /\ [][NextLadder]_vars

\* orderMoves on its own: the arrays board.moves() can hand it.
MaxMoves == 4
MovePool ==
    {Mv(1, 2, FALSE, FALSE), Mv(1, 3, FALSE, FALSE), Mv(1, 4, TRUE, FALSE),
     Mv(1, 5, TRUE, FALSE), Mv(1, 6, FALSE, TRUE), Mv(1, 7, TRUE, TRUE)}
\* Arrays of distinct legal moves.
MoveLists ==
    UNION {{ms \in [1..n -> MovePool] : \A i, j \in 1..n : i # j => ms[i] # ms[j]} : n \in 0..MaxMoves}

\* this.orderMoves(board, moves): moves.sort sorts the array in place and returns it.
OrderMoves(ms) ==
    /\ givenMoves' = ms
    /\ moveList' = orderMoves(killerMoves, ms)
    /\ UNCHANGED <<raw, evaluated, engineVars, ttGame, sessionVars>>

NextOrder == \E ms \in MoveLists : OrderMoves(ms)

SpecOrder == InitSession /\ [][NextOrder]_vars

NextEvaluate == \E board \in Boards : EvaluatePosition(board)

SpecEvaluate == InitSession /\ [][NextEvaluate]_vars

\* The page with its event loops: a message posted to the worker is handled by
\* self.onmessage, which always ends (the search is bounded by maxDepth and
\* maxTime) and always posts a reply, and a message posted to the page is
\* handled by engineWorker.onmessage.  The user's actions are not forced.
SpecSessionFair ==
    /\ SpecSession
    /\ WF_vars(\E e \in SessionExpiries, ok \in BOOLEAN : WorkerOnMessage(e, ok))
    /\ WF_vars(MainOnMessage)


----------------------------------------------------------------------------
(* Reference definitions the properties compare the searches with *)

RECURSIVE MaxOver(_, _, _, _)
RECURSIVE MinOver(_, _, _, _)
\* The largest / smallest F-value of the positions the moves lead to.
MaxOver(F(_, _), moves, i, d) ==
    IF i = Len(moves) THEN F(moves[i].to, d)
    ELSE Max(F(moves[i].to, d), MaxOver(F, moves, i + 1, d))
MinOver(F(_, _), moves, i, d) ==
    IF i = Len(moves) THEN F(moves[i].to, d)
    ELSE Min(F(moves[i].to, d), MinOver(F, moves, i + 1, d))

\* The number the worker's evaluator returns for a position.
WorkerStatic(p) == IF Turn(p) = "w" THEN raw[p] ELSE -raw[p]
\* The number the script's evaluator returns for a position.
ScriptStatic(p) == script_evaluatePosition(NewBoard(p))

RECURSIVE WorkerFullMax(_, _), WorkerFullMin(_, _)
\* Unpruned minimax with the worker's evaluator, the maximizer / minimizer to move.
WorkerFullMax(p, d) ==
    IF d = 0 \/ IsGameOver(p) THEN WorkerStatic(p)
    ELSE MaxOver(WorkerFullMin, LegalMoves(p), 1, d - 1)
WorkerFullMin(p, d) ==
    IF d = 0 \/ IsGameOver(p) THEN WorkerStatic(p)
    ELSE MinOver(WorkerFullMax, LegalMoves(p), 1, d - 1)

RECURSIVE ScriptFullMax(_, _), ScriptFullMin(_, _)
\* Unpruned minimax with the script's evaluator.
ScriptFullMax(p, d) ==
    IF d = 0 \/ IsGameOver(p) THEN ScriptStatic(p)
    ELSE MaxOver(ScriptFullMin, LegalMoves(p), 1, d - 1)
ScriptFullMin(p, d) ==
    IF d = 0 \/ IsGameOver(p) THEN ScriptStatic(p)
    ELSE MinOver(ScriptFullMax, LegalMoves(p), 1, d - 1)

\* The unpruned value of the call the root loop made for a root move.
FullValueOfCall(c) ==
    IF probe.engine = "worker" THEN WorkerFullMin(c.move.to, c.depth - 1)
    ELSE IF Turn(Fen(probe.entry)) = "w" THEN ScriptFullMin(c.move.to, c.depth - 1)
    ELSE ScriptFullMax(c.move.to, c.depth - 1)

Calls == {probe.calls[i] : i \in 1..Len(probe.calls)}

\* C1: the score the alpha-beta search returns for a position at a depth of at
\* most 3 (full window at the call, the transposition table in use, no
\* truncation by the clock) equals the score of the unpruned minimax of the
\* same depth with the same evaluator.
C1_PruningEqualsFullMinimax ==
    \A c \in Calls :
        (c.depth - 1 <= 3 /\ ~c.truncated) => c.score = FullValueOfCall(c)

\* The same statement for the script's minimax alone, which keeps no table.
C1_ScriptOnly ==
    probe.engine = "script" => C1_PruningEqualsFullMinimax


\* The static value of a position for White, by the evaluator of the engine that searched.
StaticForWhite(p) == IF probe.engine = "worker" THEN raw[p] ELSE ScriptStatic(p)

RECURSIVE GameValue(_, _)
\* The depth-limited minimax value of a position for White: White to move takes
\* the largest value of the moves, Black the smallest.
GameValue(p, d) ==
    IF d = 0 \/ IsGameOver(p) THEN StaticForWhite(p)
    ELSE IF Turn(p) = "w" THEN MaxOver(GameValue, LegalMoves(p), 1, d - 1)
    ELSE MinOver(GameValue, LegalMoves(p), 1, d - 1)

RootPos == Fen(probe.entry)
RootMoves == {LegalMoves(RootPos)[i] : i \in 1..Len(LegalMoves(RootPos))}
\* A search that ran (with at least one legal move), and one during which no
\* test of the clock found the budget exceeded.
Searched == probe.engine # "none" /\ ~lastResult.null
Untruncated == Searched /\ probe.reads <= probe.expireAt

\* Value a is strictly better than value b for the side c.
BetterFor(c, a, b) == IF c = "w" THEN a > b ELSE a < b

\* C2: findBestMove returns a root move whose depth-limited minimax value is the
\* best one available to the side to move.
C2_BestRootMove ==
    Untruncated =>
        \A m \in RootMoves :
            ~BetterFor(Turn(RootPos), GameValue(m.to, lastResult.depth - 1),
                       GameValue(lastResult.move.to, lastResult.depth - 1))

HasMatingMove == \E m \in RootMoves : InCheckmate(m.to)

\* C3: when the side to move can mate in one, a search of depth >= 2 returns the
\* mating move and a mate-range score signed for the mating side (White mates in
\* the model's position, so the score is positive in either sign convention).
C3_FindsMateInOne ==
    (Untruncated /\ HasMatingMove /\ lastResult.depth >= 2) =>
        /\ InCheckmate(lastResult.move.to)
        /\ lastResult.score >= MateThreshold

\* C4: within one search, the scores compared at a node are all relative to
\* the same colour.
C4_OneSignConvention == probe.engine = "worker" => ~probe.mixed

\* C5: after a search returns, the board is the board at the entry of the search.
C5_BoardRestored ==
    (probe.engine # "none" /\ ~probe.thrown) => searchBoard = probe.entry

\* A search of the worker that took a cutoff and a table hit, was cut short by
\* the clock inside minimax, and left the one-position board as it found it.
C5_Witness ==
    /\ probe.engine = "worker"
    /\ probe.cutoffs > 0
    /\ \E l \in probe.lookups : l.hit
    /\ \E c \in Calls : c.truncated
    /\ searchBoard = probe.entry
    /\ Len(searchBoard) = 1

\* C6: a lookup at remaining depth d hits exactly when an entry of stored depth
\* >= d exists, a hit returns the stored score, and a node whose lookup missed
\* is searched again (it ends up stored at the requested depth or deeper).
C6_LookupDepthRule ==
    \A l \in probe.lookups :
        /\ l.hit <=> l.stored.depth >= l.depth
        /\ l.hit => l.score = l.stored.score
        /\ (~l.hit /\ probe.expireAt = Never /\ ~probe.thrown) =>
              /\ l.fen \in DOMAIN transpositionTable
              /\ transpositionTable[l.fen].depth >= l.depth

\* An entry stored at depth 4 was hit by a request of depth 3, and a request
\* missed on an entry stored at a smaller depth.
C6_Witness ==
    /\ \E l \in probe.lookups : l.hit /\ l.stored.depth = 4 /\ l.depth = 3
    /\ \E l \in probe.lookups : ~l.hit /\ l.stored.depth >= 1 /\ l.stored.depth < l.depth

\* The number of entries of a map.
Size(map) == Cardinality(DOMAIN map)

\* The entry count a bounded position cache would hold at most.
CacheLimit == 8

\* C7: neither the worker's transpositionTable nor the page's analysisCache ever
\* holds more than a fixed number of entries.
C7_CacheBounded ==
    /\ Size(transpositionTable) <= CacheLimit
    /\ Size(analysisCache) <= CacheLimit

\* C8: when an analysis is requested, no entry of the analysisCache or of the
\* transpositionTable was written under another game than the loaded one.
C8_NoEntryOfPreviousGame ==
    [][AnalyzePosition =>
          /\ \A k \in DOMAIN analysisCache : cacheGame[k] = currentGame
          /\ \A k \in DOMAIN transpositionTable : ttGame[k] = currentGame]_vars

\* The iterations that examined every root move before the budget ran out.
Iters == {probe.iters[i] : i \in 1..Len(probe.iters)}
CompleteDepths == {it.depth : it \in {x \in Iters : ~x.broke}}
MaxOf(S) == CHOOSE x \in S : \A y \in S : y <= x
DeepestComplete == MaxOf(CompleteDepths)

\* C9: the reported depth is the deepest iteration that examined every root
\* move within the budget (the partial one only if none completed).
C9_DepthIsDeepestComplete ==
    (Searched /\ probe.engine = "worker") =>
        IF CompleteDepths # {} THEN lastResult.depth = DeepestComplete
        ELSE lastResult.depth = 1

\* The calls of one iteration, and the first of them with the largest score.
CallsAt(d) == {c \in Calls : c.depth = d}
IterBest(d) ==
    CHOOSE c \in CallsAt(d) :
        \A o \in CallsAt(d) : o.score < c.score \/ (o.score = c.score /\ o.index >= c.index)

\* C10: the reported move and score are those of the deepest completed iteration.
C10_ResultOfDeepestComplete ==
    (Searched /\ probe.engine = "worker" /\ CompleteDepths # {}) =>
        /\ lastResult.move = IterBest(DeepestComplete).move
        /\ lastResult.score = IterBest(DeepestComplete).score

\* C11: once a read of the clock has found the budget exceeded, no move loop of
\* the search (in the recursion or at the root) applies a further move to the board.
C11_NoMoveAfterExpiry == probe.engine = "worker" => probe.lateMoves = 0

\* A number that is a score: neither +Infinity nor -Infinity.
Finite(x) == -Infinity < x /\ x < Infinity

\* The last message the worker posted.
LastReply == toMain[Len(toMain)]

C13_LegalMoveFiniteScore ==
    (probe.engine # "none" /\ ~probe.thrown /\ Len(LegalMoves(RootPos)) > 0) =>
        /\ ~lastResult.null
        /\ lastResult.move \in RootMoves
        /\ Finite(lastResult.score)

\* A search of the worker whose budget was exceeded at the first read of the
\* clock, on a position that can mate in one, returned one of the legal moves.
C13_Witness ==
    /\ probe.engine = "worker"
    /\ probe.expireAt = 0
    /\ HasMatingMove
    /\ ~lastResult.null
    /\ lastResult.move \in RootMoves
    /\ Finite(lastResult.score)

\* The requests posted to the worker whose reply the page has not handled yet.
Replies == {i \in 1..Len(toMain) : toMain[i].type \in {"ANALYSIS_COMPLETE", "ANALYSIS_ERROR"}}
InFlight == Len(toWorker) + Cardinality(Replies)

\* C14: at most one analysis is in flight, and while one is in flight the flag
\* isAnalyzing is set, so that a call of analyzePosition returns at its first line.
C14_OneInFlight ==
    /\ InFlight <= 1
    /\ InFlight = 1 => (isAnalyzing /\ ~MayAnalyze)

\* A request is waiting for the worker while the user has moved the board to
\* another position, which is not cached.
C14_Witness ==
    /\ toWorker # <<>>
    /\ InFlight = 1
    /\ isAnalyzing
    /\ chess # NoChess
    /\ Fen(chess) # Fen(Head(toWorker).board)
    /\ Fen(chess) \notin DOMAIN analysisCache

\* C15: an accepted request (isAnalyzing set) is followed by the worker's reply
\* and, once the page has handled the reply, by a state in which isAnalyzing is
\* false again, so that analyzePosition accepts the next call.
C15_RequestLeadsToUsable == isAnalyzing ~> ~isAnalyzing

\* C16: when the evaluation throws at a node of a search, the board is left as
\* it was at the entry of the search.
C16_BoardRestoredOnError ==
    (probe.engine = "worker" /\ probe.thrown) => searchBoard = probe.entry

\* C17: a search never runs on the chess object of the page itself, and after a
\* search the position of the page is gameStates[currentMoveIndex].
C17_EngineSearchesSnapshot ==
    (probe.engine # "none" /\ chess # NoChess) =>
        /\ ~probe.live
        /\ Fen(chess) = gameStates[currentMoveIndex + 1]

\* The difference displayAnalysis computed for the label in the panel.
Delta == Abs(panel.evaluation - panel.previous[1])
Labelled == panel.moveQuality # ""

\* The ladder as the ratings table gives it, bucket by bucket (hundredths of a pawn).
RatingOf(delta) ==
    CASE delta < 30 -> "excellent"
      [] 30 <= delta /\ delta < 80 -> "good"
      [] 80 <= delta /\ delta < 150 -> "inaccuracy"
      [] 150 <= delta /\ delta < 300 -> "mistake"
      [] delta >= 300 -> "blunder"

C19_BoundaryToLowerSeverity ==
    Labelled =>
        /\ Delta = 30 => panel.moveQuality = "excellent"
        /\ Delta = 80 => panel.moveQuality = "good"
        /\ Delta = 150 => panel.moveQuality = "inaccuracy"
        /\ Delta = 300 => panel.moveQuality = "mistake"

\* C20: when displayAnalysis gives a label, previousEval is the evaluation of
\* the position one ply before the analysed one, in the same game.
C20_PreviousEvalOnePlyBefore ==
    Labelled =>
        panel.previousOf = [game |-> panel.of.game, index |-> panel.of.index - 1]

\* An evaluation of the page (hundredths of a pawn) in the mate range.
MateRange(evaluation) == Abs(evaluation) >= Hundredths(MateThreshold)

\* C21: an evaluation in the mate range is printed as a mate and not as a
\* number, and no label is computed from a difference one of whose two
\* evaluations is in the mate range.
C21_MateNotLabelled ==
    /\ (panel # NoPanel /\ MateRange(panel.evaluation)) =>
           panel.evalText \in {"Mate for White", "Mate for Black"}
    /\ Labelled => (~MateRange(panel.evaluation) /\ ~MateRange(panel.previous[1]))

\* The largest magnitude the evaluation terms give a position that is not terminal.
MaxQuietMagnitude == MaxOf({Abs(raw[p]) : p \in {q \in Pos : ~IsGameOver(q)}})

\* The score a root call returned, seen from White: the worker's evaluator
\* answers for the side to move, the script's for White.
ForWhite(c) ==
    IF probe.engine = "worker" /\ Turn(c.move.to) = "b" THEN -c.score ELSE c.score

\* C22: the score the evaluator returns on a checkmate is larger in magnitude
\* than every score of a non-terminal position and is in favour of the side
\* that gave the mate; on a stalemate it is 0.
C22_TerminalScores ==
    \A c \in Calls :
        /\ InCheckmate(c.move.to) =>
               /\ Abs(c.score) > MaxQuietMagnitude
               /\ (Turn(c.move.to) = "b") = (ForWhite(c) > 0)
        /\ InStalemate(c.move.to) => c.score = 0

\* The number of places of an array that hold the move m.
Occurrences(ms, m) == Cardinality({i \in 1..Len(ms) : ms[i] = m})

\* C23: the array orderMoves returns holds every move of the array it was given
\* exactly as often as that array; no non-capture stands before a capture, and
\* among two moves that are both captures or both not, no non-promotion stands
\* before a promotion.
C23_OrderMovesPermutation ==
    /\ Len(moveList) = Len(givenMoves)
    /\ \A m \in MovePool : Occurrences(moveList, m) = Occurrences(givenMoves, m)
    /\ \A i, j \in 1..Len(moveList) :
           i < j =>
               /\ ~(~moveList[i].captured /\ moveList[j].captured)
               /\ (moveList[i].captured = moveList[j].captured) =>
                      ~(~moveList[i].promotion /\ moveList[j].promotion)

\* orderMoves was given an array with a quiet move in front of a capture, of a
\* promotion and of a capturing promotion, and moved them.
C23_Witness ==
    /\ Len(givenMoves) = MaxMoves
    /\ ~givenMoves[1].captured /\ ~givenMoves[1].promotion
    /\ \E i, j, k \in 2..MaxMoves :
           /\ givenMoves[i].captured /\ ~givenMoves[i].promotion
           /\ ~givenMoves[j].captured /\ givenMoves[j].promotion
           /\ givenMoves[k].captured /\ givenMoves[k].promotion
    /\ moveList # givenMoves
    /\ moveList[MaxMoves] = givenMoves[1]

\* C24: every quiet move that caused a beta cutoff in the worker's search is in
\* killerMoves afterwards (where orderMoves looks it up to put it in front of
\* the other quiet moves).
C24_CutoffMoveIsKiller ==
    probe.engine = "worker" => probe.quietCutoffs \subseteq killerMoves

\* C25: no transposition-table entry holds the score of a move loop that the
\* time check cut short, and no lookup returns such a score as a hit.
C25_NoTruncatedEntry ==
    /\ ttCut = {}
    /\ probe.cutHits = {}

\* The second half alone: a lookup of a later search hits a truncated entry.
C25_NoTruncatedHit == probe.cutHits = {}

\* What a newly constructed engine returns for the position, with no time limit.
FreshResult(p) == findBestMove(NewBoard(p), <<>>, <<>>, {}, 0, Never, Never).result

\* C26: a search of the worker that the clock and the evaluator did not
\* interrupt returns the move and the score that a newly constructed engine
\* returns for the same position, whatever the engine searched before.
C26_ResultReproducible ==
    (probe.engine = "worker" /\ probe.expireAt = Never /\ ~probe.thrown) =>
        /\ lastResult.null = FreshResult(RootPos).null
        /\ lastResult.move = FreshResult(RootPos).move
        /\ lastResult.score = FreshResult(RootPos).score

\* C27: every entry of analysisCache holds, under the key of a position, an
\* analysis that was computed for that position.
C27_CacheKeyIsAnalysedPosition ==
    \A k \in DOMAIN analysisCache : cacheOf[k] = k

\* C28: the score of a board for its side to move equals the score of the
\* mirror image with the colours exchanged for its side to move.
C28_ColourSymmetric ==
    evaluated # NoEvaluated => evaluated.score = evaluated.mirrored

\* One of the four navigation functions ran on a loaded game.
NavigationStep == chess # NoChess /\ (FirstMove \/ PreviousMove \/ NextMove \/ LastMove)

\* C29: while a game is loaded the move index lies between 0 and the number of
\* moves, gameStates has one entry more than moveHistory and the live position
\* is gameStates[currentMoveIndex]; every navigation step leaves
\* highlightedSquares empty.
C29_NavigationKeepsIndexAndBoard ==
    /\ [](chess # NoChess =>
             /\ 0 <= currentMoveIndex /\ currentMoveIndex <= Len(moveHistory)
             /\ Len(gameStates) = Len(moveHistory) + 1
             /\ Fen(chess) = gameStates[currentMoveIndex + 1])
    /\ [][NavigationStep => highlightedSquares' = <<>>]_vars

\* An analysis at the first position of a game marked its best move, and the
\* user then went to the last position of that game.
C29_Witness ==
    /\ chess # NoChess
    /\ panel.of = [game |-> currentGame, index |-> 0]
    /\ Len(moveHistory) = 3
    /\ currentMoveIndex = Len(moveHistory)
    /\ highlightedSquares = <<>>

\* C30: while a game is loaded, userColor is the colour that the user last
\* searched for played in that game.
C30_UserColorIsPlayedColour ==
    (chess # NoChess /\ shown.played # "none") => userColor = shown.played

====
